---- MODULE Spec2Model ----
(***************************************************************************)
(* Model of the EcoFlow PowerOcean integration: the data coordinator       *)
(* (custom_components/eco_flow/coordinator.py), the MQTT handler           *)
(* (mqtt_handler.py) and the entry setup (__init__.py).                    *)
(*                                                                         *)
(* Two execution contexts are modelled:                                    *)
(*   - the Home Assistant event loop ("scheduler"): async_setup_entry,     *)
(*     the refresh cycle _async_update_data and the jobs queued with       *)
(*     hass.add_job.  A coroutine gives up the loop only at an await.      *)
(*   - the paho network thread: on_connect, on_disconnect, on_message and  *)
(*     the update_mqtt_data call made from on_message.  It is a real       *)
(*     thread, so its steps interleave with the statements of the loop.    *)
(*                                                                         *)
(* Layout note: in coordinator.py the functions from line 88 on            *)
(* (_process_get_all_quota_response, _fetch_all_quotas and everything      *)
(* nested below it) are written at module level, not inside the class.     *)
(* Every caller in the repository uses them as methods of the coordinator  *)
(* (self._fetch_all_quotas, coordinator.fetch_mqtt_certification,          *)
(* self.coordinator.update_mqtt_data); the model follows the callers and   *)
(* treats the bodies as methods of EcoFlowDataCoordinator.                 *)
(*                                                                         *)
(* DataUpdateCoordinator and hass.add_job belong to Home Assistant; they   *)
(* are modelled by their documented behaviour: a refresh that returns      *)
(* publishes the returned mapping as .data, a refresh that raises keeps    *)
(* .data and clears last_update_success, async_set_updated_data replaces   *)
(* .data, add_job appends to the loop's FIFO queue, and refresh cycles of  *)
(* one coordinator do not overlap.                                         *)
(*                                                                         *)
(* paho-mqtt is modelled the same way: connect() of the handler starts the *)
(* network loop whether client.connect raised or not, the loop calls       *)
(* on_connect with the broker's return code, loop_stop() joins the loop    *)
(* and disconnect() closes an open connection.                             *)
(*                                                                         *)
(* Specifications:                                                         *)
(*   Spec         setup, refresh cycles and the network thread of a        *)
(*                session whose certificate fetch and connect succeed      *)
(*   MergeSpec    the merge of one refresh cycle over all cache contents   *)
(*   HistorySpec  setup and refresh cycles with the clock jumping          *)
(*   MessageSpec  the network thread for every kind of payload             *)
(*   SetupSpec    setup with every outcome of the certificate fetch and    *)
(*                of the connect, the connect callbacks and stop()         *)
(*   SignSpec     one call of _generate_signature per payload and method   *)
(*   FlattenSpec  the same call on payloads whose keys hold "." or "[0]"   *)
(*                and on sequences nested in sequences                     *)
(*   LifecycleSpec  setup with every outcome, connect() raising included,   *)
(*                the refresh cycles and async_unload_entry                *)
(*   UnloadSpec   messages and their queued jobs around the unload         *)
(*   QuotaSpec    one refresh cycle per nested answer of the quota call    *)
(***************************************************************************)
EXTENDS Integers, Sequences, FiniteSets, TLC

\* ------------------------------------------------------------------ bounds
\* number of refresh cycles of a run (the first refresh of setup included)
MaxTicks == 3
\* number of MQTT messages accepted by on_message in a run
MaxMsgs == 2
\* calls of mqtt_handler.stop()
MaxStops == 2
\* items of a list in a payload to sign
MaxItems == 2

\* --------------------------------------------------------------- constants
\* self._history_interval_sec
history_interval_sec == 3600
\* update_interval=timedelta(seconds=180)
update_interval == 180

\* field paths of the flattened mappings
Keys == {"x", "y"}
\* values reported by the "all quotas" endpoint
RestVals == {1, 2}
\* value reported by the historical endpoint
HistVals == {5}
\* the fields of the n-th MQTT message carry the value 10 + n, so that the
\* origin of every value of the canonical state can be read off the value
MqttVal(n) == 10 + n
MqttVals == {MqttVal(n) : n \in 1..MaxMsgs}
\* self._last_history_fetch = None
NoFetch == 0 - 1
\* seconds between two refresh cycles when the timer is re-armed or a refresh
\* is requested out of band: the polling interval, a gap that brings the
\* clock to exactly one historical interval, and one just over it
TickDelays == {update_interval, history_interval_sec - update_interval, history_interval_sec + 1}

\* ------------------------------------------------------------ dictionaries
EmptyMap == [k \in {} |-> 0]

\* dict.update / item assignment: entries of top replace those of base
Overlay(base, top) ==
  [k \in (DOMAIN base) \cup (DOMAIN top) |->
     IF k \in DOMAIN top THEN top[k] ELSE base[k]]

\* d[k] = v
SetItem(d, k, v) == [j \in (DOMAIN d) \cup {k} |-> IF j = k THEN v ELSE d[j]]

\* successful answers of GET /iot-open/sign/device/quota/all (flattened)
Snapshots ==
  {[k \in {"x"} |-> v] : v \in RestVals} \cup {[k \in Keys |-> 1]}
\* answers of POST /iot-open/sign/device/quota/data
Histories == {EmptyMap} \cup {[k \in {"y"} |-> v] : v \in HistVals}

\* orders in which a payload dict can enumerate its keys
KeyOrders == {<<"x">>, <<"y">>, <<"x", "y">>, <<"y", "x">>}

Range(s) == {s[i] : i \in 1..Len(s)}

\* d.get(k, default)
Get(d, k, default) == IF k \in DOMAIN d THEN d[k] ELSE default

\* the "data" of an answer of GET /iot-open/sign/certification with code "0"
Certificates ==
  {[f \in {"url", "port", "protocol", "certificateAccount", "certificatePassword"} |->
      CASE f = "url" -> "mqtt-e.ecoflow.com"
        [] f = "port" -> "8883"
        [] f = "protocol" -> "mqtts"
        [] f = "certificateAccount" -> "open-account"
        [] f = "certificatePassword" -> "open-password"]}

\* mqtt_handler.py line 21, the host used when the certificate names none
DefaultHost == "mqtt.ecoflow.com"

\* no on_connect call so far
NoRc == 0 - 1

\* --------------------------------------------- payloads and _flatten_dict
\* A JSON value is a pair of a tag and a content: an integer ("int"), a text
\* ("str"), a list ("list", the sequence of its items) or a dict ("dict", the
\* sequence of its <<key, value>> pairs in insertion order). A flat dict, as
\* _flatten_dict returns it, is such a sequence of pairs.
Int_(n) == <<"int", n>>
Str_(x) == <<"str", x>>
List_(items) == <<"list", items>>
Dict_(pairs) == <<"dict", pairs>>
Tag(value) == value[1]
Val(value) == value[2]

\* the printable ASCII characters in the order of their codes, in three
\* runs: 32-33, 35-91, 93-95 and 97-126 (the double quote, the backslash and
\* the grave accent left out)
AsciiRuns ==
  << <<32, " !">>,
     <<35, "#$%&'()*+,-./0123456789:;<=>?@ABCDEFGHIJKLMNOPQRSTUVWXYZ[">>,
     <<93, "]^_">>,
     <<97, "abcdefghijklmnopqrstuvwxyz{|}~">> >>

CharAt(x, i) == SubSeq(x, i, i)

\* ord(c)
Ord(c) ==
  LET run == CHOOSE r \in 1..Len(AsciiRuns) :
               \E i \in 1..Len(AsciiRuns[r][2]) : CharAt(AsciiRuns[r][2], i) = c
      pos == CHOOSE i \in 1..Len(AsciiRuns[run][2]) : CharAt(AsciiRuns[run][2], i) = c
  IN AsciiRuns[run][1] + pos - 1

\* a < b for two str, as sorted() compares them
StrLess(a, b) ==
  \E i \in 1..Len(b) :
    /\ Len(a) >= i - 1
    /\ SubSeq(a, 1, i - 1) = SubSeq(b, 1, i - 1)
    /\ \/ Len(a) = i - 1
       \/ Ord(CharAt(a, i)) < Ord(CharAt(b, i))

\* items[k] = v on a dict
DictSet(items, k, v) ==
  IF \E i \in 1..Len(items) : items[i][1] = k
    THEN [i \in 1..Len(items) |-> IF items[i][1] = k THEN <<k, v>> ELSE items[i]]
    ELSE Append(items, <<k, v>>)

\* items.update(other)
RECURSIVE DictUpdate(_, _)
DictUpdate(items, other) ==
  IF other = <<>> THEN items
  ELSE DictUpdate(DictSet(items, Head(other)[1], Head(other)[2]), Tail(other))

\* the separator put in front of a top-level key too
new_key_always_sep(parent_key, k) == parent_key \o "." \o k

\* line 230
new_key(parent_key, k) == IF parent_key # "" THEN parent_key \o "." \o k ELSE k

\* lines 236 and 238: the key of item idx of a list
item_key(key, idx) == key \o "[" \o ToString(idx) \o "]"

\* lines 221-241: _flatten_dict over data.items(), and its loop over a list
RECURSIVE flatten_dict(_, _)
RECURSIVE flatten_list(_, _, _)
flatten_dict(pairs, parent_key) ==
  IF pairs = <<>> THEN <<>>
  ELSE LET k == Head(pairs)[1]
           v == Head(pairs)[2]
           piece == IF Tag(v) = "dict" THEN flatten_dict(Val(v), new_key(parent_key, k))
                    ELSE IF Tag(v) = "list" THEN flatten_list(Val(v), new_key(parent_key, k), 0)
                    ELSE <<<<new_key(parent_key, k), v>>>>
       IN DictUpdate(piece, flatten_dict(Tail(pairs), parent_key))

flatten_list(items, key, idx) ==
  IF items = <<>> THEN <<>>
  ELSE LET item == Head(items)
           piece == IF Tag(item) = "dict" THEN flatten_dict(Val(item), item_key(key, idx))
                    ELSE <<<<item_key(key, idx), item>>>>
       IN DictUpdate(piece, flatten_list(Tail(items), key, idx + 1))

\* ----------------------------------------------------- _generate_signature
\* repr(v), as str() of a list or dict prints its content
RECURSIVE repr(_)
RECURSIVE repr_items(_)
RECURSIVE repr_pairs(_)
repr(v) ==
  CASE Tag(v) = "int" -> ToString(Val(v))
    [] Tag(v) = "str" -> "'" \o Val(v) \o "'"
    [] Tag(v) = "list" -> "[" \o repr_items(Val(v)) \o "]"
    [] Tag(v) = "dict" -> "{" \o repr_pairs(Val(v)) \o "}"

repr_items(items) ==
  IF items = <<>> THEN ""
  ELSE IF Len(items) = 1 THEN repr(Head(items))
  ELSE repr(Head(items)) \o ", " \o repr_items(Tail(items))

repr_pairs(pairs) ==
  IF pairs = <<>> THEN ""
  ELSE LET one == "'" \o Head(pairs)[1] \o "': " \o repr(Head(pairs)[2])
       IN IF Len(pairs) = 1 THEN one ELSE one \o ", " \o repr_pairs(Tail(pairs))

\* f"{v}"
format(v) == IF Tag(v) = "str" THEN Val(v) ELSE repr(v)

\* sorted(flat.items()): the keys of a dict differ, so the key decides
RECURSIVE sorted_set(_)
sorted_set(S) ==
  IF S = {} THEN <<>>
  ELSE LET first == CHOOSE it \in S : \A other \in S \ {it} : StrLess(it[1], other[1])
       IN <<first>> \o sorted_set(S \ {first})

sorted_items(flat) == sorted_set(Range(flat))

\* line 198: "&".join(f"{k}={v}" for k, v in ...)
RECURSIVE join_pairs(_)
join_pairs(items) ==
  IF items = <<>> THEN ""
  ELSE LET one == Head(items)[1] \o "=" \o format(Head(items)[2])
       IN IF Len(items) = 1 THEN one ELSE one \o "&" \o join_pairs(Tail(items))

\* the "&" of line 199 appended for an empty flat dict too
sign_base_always_amp(flat, access_key, nonce, ts) ==
  join_pairs(sorted_items(flat)) \o "&"
    \o "accessKey=" \o access_key \o "&nonce=" \o nonce \o "&timestamp=" \o ts

\* lines 196-202
sign_base(flat, access_key, nonce, ts) ==
  (IF flat # <<>> THEN join_pairs(sorted_items(flat)) \o "&" ELSE "")
    \o "accessKey=" \o access_key \o "&nonce=" \o nonce \o "&timestamp=" \o ts

\* lines 204-208: the digest, kept as the term it is computed from
hmac_sha256_hex(key, msg) == "hmac-sha256(" \o key \o ", " \o msg \o ")"

\* lines 210-219
headers(method, access_key, nonce, ts, signature) ==
  [h \in {"accessKey", "nonce", "timestamp", "sign"}
         \cup (IF method = "POST" THEN {"Content-Type"} ELSE {}) |->
     CASE h = "accessKey" -> access_key
       [] h = "nonce" -> nonce
       [] h = "timestamp" -> ts
       [] h = "sign" -> signature
       [] h = "Content-Type" -> "application/json;charset=UTF-8"]

\* lines 190-219, with the locals flat and sign_base kept beside the result
generate_signature(payload, method, access_key, secret_key, nonce, ts) ==
  LET flat == flatten_dict(Val(payload), "")
      base == sign_base(flat, access_key, nonce, ts)
  IN [flat |-> flat,
      sign_base |-> base,
      headers |-> headers(method, access_key, nonce, ts,
                          hmac_sha256_hex(secret_key, base))]

\* line 192
Nonce == "123456"
\* entry.data["access_key"], entry.data["secret_key"], entry.data["device_sn"]
AccessKey == "AK"
SecretKey == "SK"
DeviceSn == "SN1"
\* str(int(time.time() * 1000)) at the time of the call
Timestamp == "1718000000000"

VARIABLES
  setup_pc,            \* position of async_setup_entry
  mqtt_enabled,        \* entry.data["mqtt_enabled"]
  registered,          \* hass.data[DOMAIN][entry_id] is the coordinator
  client_running,      \* the network loop of mqtt_handler.client is running
  mqtt_cert_data,      \* coordinator.mqtt_cert_data
  cert_fetched,        \* fetch_mqtt_certification has been called
  client_made,         \* mqtt_handler.client is not None
  mqtt_host,           \* mqtt_handler.mqtt_host ("unset": no handler yet)
  h_access_key,        \* mqtt_handler.access_key ("unset": no handler yet)
  connect_raised,      \* client.connect raised inside connect()
  connected,           \* mqtt_handler.connected
  message_count,       \* mqtt_handler.message_count
  last_payload,        \* msg.payload of the last call of on_message
  last_rc,             \* rc of the last call of on_connect
  stops,               \* calls of mqtt_handler.stop()
  cloud_data,          \* coordinator.cloud_data
  historical_data,     \* coordinator.historical_data
  mqtt_data,           \* coordinator.mqtt_data (values)
  mqtt_order,          \* coordinator.mqtt_data (insertion order of the keys)
  last_history_fetch,  \* coordinator._last_history_fetch
  data_none,           \* coordinator.data is None
  data,                \* coordinator.data (the canonical state)
  last_update_success, \* coordinator.last_update_success
  queue,               \* jobs handed to the event loop with hass.add_job
  r_pc,                \* position of the running _async_update_data
  quota_ok,            \* the last requests.get of _fetch_all_quotas succeeded
  hist_ok,             \* the last requests.post of _fetch_historical_data succeeded
  now,                 \* the clock, in seconds
  ticks,               \* refresh cycles started
  first_tick,          \* the clock at the first refresh cycle
  hist_fetches,        \* historical fetches issued
  combined,            \* local "combined" of _async_update_data
  it_pos,              \* position of the iterator over mqtt_data.items()
  it_used,             \* size of mqtt_data when that iterator was created
  m_pc,                \* position of the network thread in on_message
  flat_data,           \* local "flat_data" of update_mqtt_data
  m_todo,              \* keys of flat_data the loop has not visited yet
  mqtt_since_rest,     \* MQTT fields received since cloud_data was last assigned
  sig_pc,              \* position of a call of _generate_signature
  sig_payload,         \* its argument "payload"
  sig_method,          \* its argument "method"
  sig_out,             \* what it returned, with its locals flat and sign_base
  rest_base,           \* what the last _async_update_data returned
  subscribed,          \* topics passed to client.subscribe by the last on_connect
  cert_result,         \* what fetch_mqtt_certification returned
  cert_ok,             \* its request was answered with envelope code "0"
  ran_in,              \* blocking calls made so far, and the context each ran in
  unload_pc,           \* outcome of async_unload_entry ("none": not called)
  q_pc,                \* position of a call of _fetch_all_quotas
  raw_data,            \* its local "raw_data", the "data" of the answer
  processed_data,      \* what _process_get_all_quota_response returned
  forwarded            \* calls of coordinator.update_mqtt_data made by on_message

vars == <<setup_pc, mqtt_enabled, registered, client_running, mqtt_cert_data,
          cert_fetched, client_made, mqtt_host, h_access_key, connect_raised,
          connected, message_count, last_payload, last_rc, stops, cloud_data, historical_data, mqtt_data, mqtt_order,
          last_history_fetch, data_none, data, last_update_success, queue,
          r_pc, quota_ok, hist_ok, now, ticks, first_tick, hist_fetches, combined,
          it_pos, it_used, m_pc, flat_data, m_todo, mqtt_since_rest,
          sig_pc, sig_payload, sig_method, sig_out, rest_base, subscribed,
          cert_result, cert_ok, ran_in, unload_pc, q_pc, raw_data, processed_data,
          forwarded>>

certVars == <<mqtt_cert_data, cert_fetched, cert_result, cert_ok>>
clientVars == <<client_running, client_made, mqtt_host, h_access_key, connect_raised>>
setupVars == <<setup_pc, mqtt_enabled, registered, certVars, clientVars>>
handlerVars == <<connected, message_count, last_payload, last_rc, stops, subscribed,
                 forwarded>>
restVars == <<cloud_data, historical_data, last_history_fetch, quota_ok, hist_ok>>
bufferVars == <<mqtt_data, mqtt_order>>
pubVars == <<data_none, data, last_update_success, rest_base>>
clockVars == <<now, ticks, first_tick, hist_fetches>>
mergeVars == <<combined, it_pos, it_used>>
threadVars == <<m_pc, flat_data, m_todo>>
signVars == <<sig_pc, sig_payload, sig_method, sig_out>>
quotaVars == <<q_pc, raw_data, processed_data>>

\* no call of _generate_signature is being looked at
NoSignature == [flat |-> <<>>, sign_base |-> "", headers |-> EmptyMap]
SigIdle ==
  /\ sig_pc = "idle"
  /\ sig_payload = Dict_(<<>>)
  /\ sig_method = "GET"
  /\ sig_out = NoSignature

\* no call of _fetch_all_quotas is being looked at
QuotaIdle ==
  /\ q_pc = "idle"
  /\ raw_data = Dict_(<<>>)
  /\ processed_data = <<>>

\* mqtt_handler.py line 28
topics_to_subscribe == <<"quota">>

\* mqtt_handler.py line 75, with the access key and serial of the handler
full_topic(access_key, device_sn, topic) ==
  "/open/" \o access_key \o "/" \o device_sn \o "/" \o topic

\* mqtt_handler.py lines 74-76: the topics on_connect subscribes to
Subscriptions(access_key) ==
  {full_topic(access_key, DeviceSn, topics_to_subscribe[i]) :
     i \in 1..Len(topics_to_subscribe)}

\* the blocking calls of a session up to the connect of the handler, each
\* handed to the executor (coordinator.py 61 and 74, __init__.py 24 and 44)
RanInAfterSetup ==
  [c \in {"_fetch_all_quotas", "_fetch_historical_data",
          "fetch_mqtt_certification", "connect"} |-> "executor"]

\* EcoFlowDataCoordinator.__init__ / EcoFlowMQTTHandler.__init__
Init ==
  /\ setup_pc = "start"
  /\ mqtt_enabled \in BOOLEAN
  /\ registered = FALSE
  /\ client_running = FALSE
  /\ mqtt_cert_data = EmptyMap
  /\ cert_fetched = FALSE
  /\ client_made = FALSE
  /\ mqtt_host = "unset"
  /\ h_access_key = "unset"
  /\ connect_raised = FALSE
  /\ connected = FALSE
  /\ message_count = 0
  /\ forwarded = 0
  /\ last_payload = "none"
  /\ last_rc = NoRc
  /\ stops = 0
  /\ cloud_data = EmptyMap
  /\ historical_data = EmptyMap
  /\ mqtt_data = EmptyMap
  /\ mqtt_order = <<>>
  /\ last_history_fetch = NoFetch
  /\ data_none = TRUE
  /\ data = EmptyMap
  /\ last_update_success = TRUE
  /\ queue = <<>>
  /\ r_pc = "idle"
  /\ quota_ok = FALSE
  /\ hist_ok = FALSE
  /\ now = 0
  /\ ticks = 0
  /\ first_tick = 0
  /\ hist_fetches = 0
  /\ combined = EmptyMap
  /\ it_pos = 0
  /\ it_used = 0
  /\ m_pc = "idle"
  /\ flat_data = EmptyMap
  /\ m_todo = <<>>
  /\ mqtt_since_rest = EmptyMap
  /\ SigIdle
  /\ rest_base = EmptyMap
  /\ subscribed = {}
  /\ cert_result = EmptyMap
  /\ cert_ok = FALSE
  /\ ran_in = EmptyMap
  /\ unload_pc = "none"
  /\ QuotaIdle

\* ------------------------------------------------------- async_setup_entry
\* the certificate fields stored whatever the envelope code
FetchCertStoring(outcomes) ==
  /\ setup_pc = "start"
  /\ cert_fetched' = mqtt_enabled
  /\ IF mqtt_enabled
       THEN /\ \E ok \in outcomes, cert \in Certificates :
                 /\ cert_ok' = ok
                 /\ mqtt_cert_data' = cert
                 /\ cert_result' = IF ok THEN cert ELSE EmptyMap
            /\ ran_in' = SetItem(ran_in, "fetch_mqtt_certification", "executor")
       ELSE UNCHANGED <<mqtt_cert_data, cert_result, cert_ok, ran_in>>
  /\ setup_pc' = "first_refresh"
  /\ UNCHANGED <<signVars, quotaVars, unload_pc, mqtt_enabled, registered, clientVars,
                 handlerVars, restVars, bufferVars, pubVars, queue, r_pc,
                 clockVars, mergeVars, threadVars, mqtt_since_rest>>

\* lines 21-27 and coordinator.py 139-158: the certificate is fetched only
\* when MQTT is enabled; fetch_mqtt_certification stores the fields on
\* envelope code "0" and returns {} (raising nothing, storing nothing) on any
\* other code or transport error, so setup goes on either way
FetchCert(outcomes) ==
  /\ setup_pc = "start"
  /\ cert_fetched' = mqtt_enabled
  /\ IF mqtt_enabled
       THEN /\ \E ok \in outcomes, cert \in Certificates :
                 /\ cert_ok' = ok
                 /\ mqtt_cert_data' = IF ok THEN cert ELSE mqtt_cert_data
                 /\ cert_result' = IF ok THEN cert ELSE EmptyMap
            /\ ran_in' = SetItem(ran_in, "fetch_mqtt_certification", "executor")
       ELSE UNCHANGED <<mqtt_cert_data, cert_result, cert_ok, ran_in>>
  /\ setup_pc' = "first_refresh"
  /\ UNCHANGED <<signVars, quotaVars, unload_pc, mqtt_enabled, registered, clientVars, handlerVars, restVars,
                 bufferVars, pubVars, queue, r_pc, clockVars, mergeVars,
                 threadVars, mqtt_since_rest>>

\* the certification endpoint answers with code "0"
SetupFetchCert == FetchCert({TRUE})

\* the certification endpoint answers, or fails
SetupFetchCertAny == FetchCert(BOOLEAN)

\* lines 36-37, reached only when the first refresh did not raise
SetupRegister ==
  /\ setup_pc = "refreshed"
  /\ registered' = TRUE
  /\ setup_pc' = "registered"
  /\ UNCHANGED <<signVars, quotaVars, unload_pc, ran_in, mqtt_enabled, certVars, clientVars, handlerVars,
                 restVars, bufferVars, pubVars, queue, r_pc, clockVars,
                 mergeVars, threadVars, mqtt_since_rest>>

\* the handler constructed and connected before the first refresh
StartMqttEarly(outcomes) ==
  /\ setup_pc = "first_refresh"
  /\ ticks = 0
  /\ IF mqtt_enabled
       THEN /\ mqtt_host' = Get(mqtt_cert_data, "url", DefaultHost)
            /\ h_access_key' = Get(mqtt_cert_data, "accessKey", "None")
            /\ client_made' = TRUE
            /\ \E raised \in outcomes : connect_raised' = raised
            /\ client_running' = TRUE
            /\ ran_in' = SetItem(ran_in, "connect", "executor")
       ELSE UNCHANGED <<clientVars, ran_in>>
  /\ setup_pc' = "mqtt_started"
  /\ UNCHANGED <<signVars, quotaVars, unload_pc, mqtt_enabled, registered, certVars, handlerVars, restVars,
                 bufferVars, pubVars, queue, r_pc, clockVars, mergeVars,
                 threadVars, mqtt_since_rest>>

\* lines 39-47 and mqtt_handler.py 13-28, 41-60: when MQTT is enabled the
\* handler is constructed from whatever mqtt_cert_data holds and connect()
\* runs in the executor; connect swallows the exception of client.connect
\* and always starts the loop
StartMqtt(outcomes) ==
  /\ setup_pc = "registered"
  /\ IF mqtt_enabled
       THEN /\ mqtt_host' = Get(mqtt_cert_data, "url", DefaultHost)
            /\ h_access_key' = Get(mqtt_cert_data, "accessKey", "None")
            /\ client_made' = TRUE
            /\ \E raised \in outcomes : connect_raised' = raised
            /\ client_running' = TRUE
            /\ ran_in' = SetItem(ran_in, "connect", "executor")
       ELSE UNCHANGED <<clientVars, ran_in>>
  /\ setup_pc' = "mqtt_started"
  /\ UNCHANGED <<signVars, quotaVars, unload_pc, mqtt_enabled, registered, certVars, handlerVars, restVars,
                 bufferVars, pubVars, queue, r_pc, clockVars, mergeVars,
                 threadVars, mqtt_since_rest>>

\* lines 43-47 of __init__.py and mqtt_handler.py 43-47: connect() raises
\* before its own try is reached, at mqtt.Client() (self.client stays None)
\* or at tls_set() (the client exists, nothing is connected and no loop is
\* started); line 47 turns the exception into ConfigEntryNotReady, after the
\* coordinator was registered at line 37
ConnectRaises(points) ==
  /\ setup_pc = "registered"
  /\ mqtt_enabled
  /\ mqtt_host' = Get(mqtt_cert_data, "url", DefaultHost)
  /\ h_access_key' = Get(mqtt_cert_data, "accessKey", "None")
  /\ \E point \in points : client_made' = (point # "Client")
  /\ ran_in' = SetItem(ran_in, "connect", "executor")
  /\ setup_pc' = "not_ready"
  /\ UNCHANGED <<signVars, quotaVars, unload_pc, mqtt_enabled, registered, certVars,
                 client_running, connect_raised, handlerVars, restVars,
                 bufferVars, pubVars, queue, r_pc, clockVars, mergeVars,
                 threadVars, mqtt_since_rest>>

\* the broker is reachable
SetupMqtt == StartMqtt({FALSE})

\* the client cannot be built, or its TLS context cannot be set up
SetupMqttRaises == ConnectRaises({"Client", "tls_set"})

\* the broker is reachable, or client.connect raises
SetupMqttAny == StartMqtt(BOOLEAN)

\* lines 50-52: the sensor platform is forwarded and setup returns True
SetupForward ==
  /\ setup_pc = "mqtt_started"
  /\ setup_pc' = "done"
  /\ UNCHANGED <<signVars, quotaVars, unload_pc, ran_in, mqtt_enabled, registered, certVars, clientVars,
                 handlerVars, restVars, bufferVars, pubVars, queue, r_pc,
                 clockVars, mergeVars, threadVars, mqtt_since_rest>>

\* the event loop is not inside a synchronous stretch of setup or refresh
LoopFree ==
  /\ setup_pc \in {"mqtt_started", "done"}
  /\ r_pc \in {"idle", "await_quota", "await_hist"}

\* ------------------------------------------------------ _async_update_data
\* a refresh cycle starts: the first one from async_config_entry_first_refresh,
\* the later ones from the interval timer or async_request_refresh, some
\* delay after the previous cycle; line 61 hands _fetch_all_quotas to the
\* executor and awaits it
TickAfter(delays) ==
  /\ r_pc = "idle"
  /\ ticks < MaxTicks
  /\ unload_pc # "unloaded"
  /\ \/ /\ setup_pc = "first_refresh"
        /\ ticks = 0
        /\ now' = now
        /\ first_tick' = now
     \/ /\ setup_pc = "done"
        /\ ticks > 0
        /\ \E d \in delays : now' = now + d
        /\ first_tick' = first_tick
  /\ ticks' = ticks + 1
  /\ r_pc' = "await_quota"
  /\ ran_in' = SetItem(ran_in, "_fetch_all_quotas", "executor")
  /\ UNCHANGED <<signVars, quotaVars, unload_pc, setupVars, handlerVars, restVars, bufferVars,
                 pubVars, queue, hist_fetches, mergeVars, threadVars,
                 mqtt_since_rest>>

\* the cycles follow each other at the polling interval
Tick == TickAfter({update_interval})

\* the cycles follow each other at any of the delays
TickLate == TickAfter(TickDelays)

\* the timestamp compared against the polling interval instead of the
\* historical interval
need_history_polling ==
  \/ last_history_fetch = NoFetch
  \/ now - last_history_fetch >= update_interval

\* line 69
need_history ==
  \/ last_history_fetch = NoFetch
  \/ now - last_history_fetch > history_interval_sec

\* lines 99-114 and 61-72: _fetch_all_quotas returns the flattened data, or {}
\* when the request raised; the result is assigned to cloud_data and the
\* historical decision is taken
QuotaReturns ==
  /\ r_pc = "await_quota"
  /\ \E ok \in BOOLEAN :
       /\ quota_ok' = ok
       /\ IF ok
            THEN /\ \E snap \in Snapshots : cloud_data' = snap
                 /\ mqtt_since_rest' = EmptyMap
            ELSE /\ cloud_data' = EmptyMap
                 /\ mqtt_since_rest' = mqtt_since_rest
  /\ IF need_history
       THEN /\ r_pc' = "await_hist"
            /\ hist_fetches' = hist_fetches + 1
            /\ ran_in' = SetItem(ran_in, "_fetch_historical_data", "executor")
       ELSE /\ r_pc' = "merge_start"
            /\ hist_fetches' = hist_fetches
            /\ ran_in' = ran_in
  /\ UNCHANGED <<signVars, quotaVars, unload_pc, setupVars, handlerVars, historical_data,
                 last_history_fetch, hist_ok, bufferVars, pubVars, queue, now, ticks,
                 first_tick, mergeVars, threadVars>>

\* lines 117-137 and 73-77: _fetch_historical_data returns the "data" of the
\* answer, or {} when the request raised; line 74 assigns what it returned and
\* the timestamp is set to the "now" of line 68 either way
HistReturns ==
  /\ r_pc = "await_hist"
  /\ \E ok \in BOOLEAN :
       /\ hist_ok' = ok
       /\ IF ok
            THEN \E h \in Histories : historical_data' = h
            ELSE historical_data' = EmptyMap
  /\ last_history_fetch' = now
  /\ r_pc' = "merge_start"
  /\ UNCHANGED <<signVars, quotaVars, unload_pc, ran_in, setupVars, handlerVars, cloud_data, quota_ok,
                 bufferVars, pubVars, queue, clockVars, mergeVars, threadVars,
                 mqtt_since_rest>>

\* the two overlays of lines 80-81 in the opposite order
CombinedBaseSwapped(cloud, hist) == Overlay(hist, cloud)

\* lines 80-81
CombinedBase(cloud, hist) == Overlay(cloud, hist)

\* lines 80-82: the base of the merge, and the iterator over mqtt_data.items()
MergeStart ==
  /\ r_pc = "merge_start"
  /\ combined' = CombinedBase(cloud_data, historical_data)
  /\ it_used' = Len(mqtt_order)
  /\ it_pos' = 1
  /\ r_pc' = "merge"
  /\ UNCHANGED <<signVars, quotaVars, unload_pc, ran_in, setupVars, handlerVars, restVars, bufferVars,
                 pubVars, queue, clockVars, threadVars, mqtt_since_rest>>

\* lines 82-83: one pass of the loop; the iterator yields the key at its
\* position with the value the buffer holds at that moment
MergeNext ==
  /\ r_pc = "merge"
  /\ Len(mqtt_order) = it_used
  /\ it_pos <= it_used
  /\ combined' = SetItem(combined, mqtt_order[it_pos], mqtt_data[mqtt_order[it_pos]])
  /\ it_pos' = it_pos + 1
  /\ UNCHANGED <<signVars, quotaVars, unload_pc, ran_in, setupVars, handlerVars, restVars, bufferVars,
                 pubVars, queue, r_pc, clockVars, it_used, threadVars,
                 mqtt_since_rest>>

\* the cycle is over: back to idle, and the first refresh of setup decides
\* between continuing and ConfigEntryNotReady
EndCycle(ok) ==
  /\ r_pc' = "idle"
  /\ last_update_success' = ok
  /\ setup_pc' = IF setup_pc = "first_refresh"
                   THEN (IF ok THEN "refreshed" ELSE "not_ready")
                   ELSE setup_pc
  /\ combined' = EmptyMap
  /\ it_pos' = 0
  /\ it_used' = 0

\* line 82: the buffer grew under the iterator ("dictionary changed size
\* during iteration"): _async_update_data raises and .data is kept
MergeRaise ==
  /\ r_pc = "merge"
  /\ Len(mqtt_order) # it_used
  /\ EndCycle(FALSE)
  /\ UNCHANGED <<signVars, quotaVars, unload_pc, ran_in, mqtt_enabled, registered, certVars, clientVars,
                 handlerVars, restVars, bufferVars, data_none, data, rest_base,
                 queue, clockVars, threadVars, mqtt_since_rest>>

\* line 86: the loop is exhausted, combined is returned and the base class
\* publishes it as .data
RefreshPublish ==
  /\ r_pc = "merge"
  /\ Len(mqtt_order) = it_used
  /\ it_pos > it_used
  /\ data' = combined
  /\ data_none' = FALSE
  /\ rest_base' = combined
  /\ EndCycle(TRUE)
  /\ UNCHANGED <<signVars, quotaVars, unload_pc, ran_in, mqtt_enabled, registered, certVars, clientVars,
                 handlerVars, restVars, bufferVars, queue, clockVars,
                 threadVars, mqtt_since_rest>>

\* ------------------------------------------------- _async_update_mqtt_data
\* lines 184-188: a queued job runs in the event loop and publishes its
\* argument with async_set_updated_data
RunJob ==
  /\ queue # <<>>
  /\ LoopFree
  /\ data' = Head(queue)
  /\ data_none' = FALSE
  /\ last_update_success' = TRUE
  /\ queue' = Tail(queue)
  /\ UNCHANGED <<signVars, quotaVars, unload_pc, ran_in, setupVars, handlerVars, restVars, bufferVars,
                 rest_base, r_pc, clockVars, mergeVars, threadVars, mqtt_since_rest>>

\* ------------------------------------------------------ EcoFlowMQTTHandler
\* on_connect setting the flag whatever the code
OnConnectAnyCode(rcs) ==
  /\ client_running
  /\ m_pc = "idle"
  /\ ~connected
  /\ \E rc \in rcs :
       /\ last_rc' = rc
       /\ connected' = TRUE
       /\ subscribed' = Subscriptions(h_access_key)
  /\ UNCHANGED <<signVars, quotaVars, unload_pc, ran_in, setupVars, message_count, forwarded, last_payload, stops, restVars,
                 bufferVars, pubVars, queue, r_pc, clockVars, mergeVars,
                 threadVars, mqtt_since_rest>>

\* on_connect, lines 69-81, called with one of the given codes: rc = 0 sets
\* connected and subscribes, any other code is logged
OnConnectWith(rcs) ==
  /\ client_running
  /\ m_pc = "idle"
  /\ ~connected
  /\ \E rc \in rcs :
       /\ last_rc' = rc
       /\ connected' = IF rc = 0 THEN TRUE ELSE connected
       /\ subscribed' = IF rc = 0 THEN Subscriptions(h_access_key) ELSE subscribed
  /\ UNCHANGED <<signVars, quotaVars, unload_pc, ran_in, setupVars, message_count, forwarded, last_payload, stops, restVars,
                 bufferVars, pubVars, queue, r_pc, clockVars, mergeVars,
                 threadVars, mqtt_since_rest>>

\* the broker accepts the connection
OnConnect == OnConnectWith({0})

\* the broker accepts the connection, or refuses it ("not authorized")
OnConnectAny == OnConnectWith({0, 5})

\* on_disconnect, lines 83-91
OnDisconnect ==
  /\ client_running
  /\ m_pc = "idle"
  /\ connected
  /\ connected' = FALSE
  /\ UNCHANGED <<signVars, quotaVars, unload_pc, ran_in, setupVars, message_count, forwarded,
                 last_payload, last_rc, stops, subscribed,
                 restVars, bufferVars, pubVars, queue, r_pc, clockVars,
                 mergeVars, threadVars, mqtt_since_rest>>

\* stop() restarting a loop it finds stopped
StopToggling ==
  /\ setup_pc = "done"
  /\ r_pc \in {"idle", "await_quota", "await_hist"}
  /\ mqtt_host # "unset"
  /\ m_pc # "apply"
  /\ stops < MaxStops
  /\ stops' = stops + 1
  /\ client_running' = ~client_running
  /\ connected' = connected
  /\ UNCHANGED <<signVars, quotaVars, unload_pc, ran_in, setup_pc, mqtt_enabled, registered, certVars, client_made,
                 mqtt_host, h_access_key, connect_raised, message_count, forwarded,
                 last_payload, last_rc, subscribed, restVars, bufferVars, pubVars, queue,
                 r_pc, clockVars, mergeVars, threadVars, mqtt_since_rest>>

\* stop, lines 62-67, called from the event loop on the handler of a set-up
\* entry. Without a client nothing happens. Otherwise loop_stop() joins the
\* network thread, which ends the callback it is running first, and
\* disconnect() closes the connection if one is open; whether the client
\* library then calls on_disconnect from within disconnect() is its own
\* matter, so the flag is cleared or kept. On a client already stopped both
\* calls return an error code and change nothing.
Stop ==
  /\ setup_pc = "done"
  /\ r_pc \in {"idle", "await_quota", "await_hist"}
  /\ mqtt_host # "unset"
  /\ m_pc # "apply"
  /\ stops < MaxStops
  /\ stops' = stops + 1
  /\ IF client_made /\ client_running
       THEN /\ client_running' = FALSE
            /\ connected' \in {connected, FALSE}
       ELSE UNCHANGED <<client_running, connected>>
  /\ UNCHANGED <<signVars, quotaVars, unload_pc, ran_in, setup_pc, mqtt_enabled, registered, certVars, client_made,
                 mqtt_host, h_access_key, connect_raised, message_count, forwarded,
                 last_payload, last_rc, subscribed, restVars, bufferVars, pubVars, queue,
                 r_pc, clockVars, mergeVars, threadVars, mqtt_since_rest>>

\* the payloads a broker can deliver, by what lines 96-109 make of them
Payloads ==
  { "bad_utf8",       \* bytes that are not UTF-8
    "bad_json",       \* text that is not JSON
    "empty_object",   \* {}
    "empty_list",     \* []
    "zero",           \* 0, "", null, false
    "list",           \* [1]
    "scalar",         \* 7, "on", true
    "empty_params",   \* {"params": {}}
    "params_zero",    \* {"params": 0}
    "params_list",    \* {"params": [1]}
    "params_scalar",  \* {"params": 7}
    "object" }        \* {"x": 11}, {"params": {"x": 11}}

\* line 96: decode("utf-8") and json.loads return
Decodes(p) == p \notin {"bad_utf8", "bad_json"}
\* line 103: bool(payload_json)
Truthy(p) == p \notin {"empty_object", "empty_list", "zero"}
\* line 107: payload_json has the method get
HasGet(p) == p \notin {"empty_list", "zero", "list", "scalar"}
\* line 109: bool(data)
DataTruthy(p) == p \in {"params_list", "params_scalar", "object"}
\* coordinator.py line 229: data has the method items
DataHasItems(p) == p = "object"

\* on_message, lines 93-116, and line 167 of update_mqtt_data: how the call
\* ends for payload p
Outcome(p) ==
  IF ~Decodes(p) THEN "return"
  ELSE IF ~Truthy(p) THEN "return"
  ELSE IF ~HasGet(p) THEN "raise"
  ELSE IF ~DataTruthy(p) THEN "return"
  ELSE IF ~DataHasItems(p) THEN "count_raise"
  ELSE "flatten"

\* the message counted as soon as it decodes, before any check
ReceiveCountingDecoded(payloads) ==
  /\ client_running
  /\ connected
  /\ m_pc = "idle"
  /\ message_count < MaxMsgs
  /\ \E p \in payloads :
       /\ last_payload' = p
       /\ message_count' = IF Decodes(p) THEN message_count + 1 ELSE message_count
       /\ forwarded' = IF Outcome(p) \in {"count_raise", "flatten"}
                         THEN forwarded + 1 ELSE forwarded
       /\ IF Outcome(p) = "flatten"
            THEN /\ \E ord \in KeyOrders :
                      /\ flat_data' = [k \in Range(ord) |-> MqttVal(message_count + 1)]
                      /\ m_todo' = ord
                 /\ mqtt_since_rest' = Overlay(mqtt_since_rest, flat_data')
                 /\ m_pc' = "apply"
            ELSE /\ m_pc' = IF Outcome(p) = "return" THEN "idle" ELSE "raised"
                 /\ UNCHANGED <<flat_data, m_todo, mqtt_since_rest>>
  /\ UNCHANGED <<signVars, quotaVars, unload_pc, ran_in, setupVars, connected,
                 last_rc, stops, subscribed, restVars, bufferVars,
                 pubVars, queue, r_pc, clockVars, mergeVars>>

\* on_message, lines 93-116, up to the call of update_mqtt_data and its
\* line 167, for a payload out of the given ones: a payload is dropped, or
\* the AttributeError of line 107 or of _flatten_dict leaves on_message, or
\* the message is counted and flattened
Receive(payloads) ==
  /\ client_running
  /\ connected
  /\ m_pc = "idle"
  /\ message_count < MaxMsgs
  /\ \E p \in payloads :
       /\ last_payload' = p
       /\ message_count' = IF Outcome(p) \in {"count_raise", "flatten"}
                             THEN message_count + 1 ELSE message_count
       /\ forwarded' = IF Outcome(p) \in {"count_raise", "flatten"}
                         THEN forwarded + 1 ELSE forwarded
       /\ IF Outcome(p) = "flatten"
            THEN /\ \E ord \in KeyOrders :
                      /\ flat_data' = [k \in Range(ord) |-> MqttVal(message_count + 1)]
                      /\ m_todo' = ord
                 /\ mqtt_since_rest' = Overlay(mqtt_since_rest, flat_data')
                 /\ m_pc' = "apply"
            ELSE /\ m_pc' = IF Outcome(p) = "return" THEN "idle" ELSE "raised"
                 /\ UNCHANGED <<flat_data, m_todo, mqtt_since_rest>>
  /\ UNCHANGED <<signVars, quotaVars, unload_pc, ran_in, setupVars, connected,
                 last_rc, stops, subscribed, restVars, bufferVars,
                 pubVars, queue, r_pc, clockVars, mergeVars>>

\* the broker publishes JSON objects only
OnMessage == Receive({"object"})

\* the broker publishes anything
OnMessageAny == Receive(Payloads)

\* update_mqtt_data, line 171
accepts(k) == k \notin DOMAIN cloud_data

\* update_mqtt_data, lines 170-174: one pass of the loop over flat_data
ApplyField ==
  /\ m_pc = "apply"
  /\ m_todo # <<>>
  /\ LET k == Head(m_todo) IN
       IF accepts(k)
         THEN /\ mqtt_data' = SetItem(mqtt_data, k, flat_data[k])
              /\ mqtt_order' = IF k \in DOMAIN mqtt_data
                                 THEN mqtt_order ELSE Append(mqtt_order, k)
         ELSE UNCHANGED bufferVars
  /\ m_todo' = Tail(m_todo)
  /\ UNCHANGED <<signVars, quotaVars, unload_pc, ran_in, setupVars, handlerVars, restVars, pubVars,
                 queue, r_pc, clockVars, mergeVars, m_pc, flat_data,
                 mqtt_since_rest>>

\* update_mqtt_data, lines 177-182: the argument of the queued job
PatchJob == IF data_none THEN EmptyMap ELSE Overlay(data, mqtt_data)

\* the network thread calling async_set_updated_data itself
EnqueueDirect ==
  /\ m_pc = "apply"
  /\ m_todo = <<>>
  /\ data' = PatchJob
  /\ data_none' = FALSE
  /\ m_pc' = "idle"
  /\ flat_data' = EmptyMap
  /\ UNCHANGED <<signVars, quotaVars, unload_pc, ran_in, setupVars, handlerVars, restVars, bufferVars,
                 last_update_success, rest_base, queue, r_pc, clockVars, mergeVars,
                 m_todo, mqtt_since_rest>>

\* update_mqtt_data, lines 176-182: the job is built on the network thread
\* from .data and the buffer, and handed to the loop with hass.add_job
Enqueue ==
  /\ m_pc = "apply"
  /\ m_todo = <<>>
  /\ queue' = Append(queue, PatchJob)
  /\ m_pc' = "idle"
  /\ flat_data' = EmptyMap
  /\ UNCHANGED <<signVars, quotaVars, unload_pc, ran_in, setupVars, handlerVars, restVars, bufferVars,
                 pubVars, r_pc, clockVars, mergeVars, m_todo, mqtt_since_rest>>

\* ------------------------------------------------------ async_unload_entry
\* __init__.py lines 54-61, for one of the given results of the platform
\* unload. When it is true (hass.data has the domain once setup has run)
\* the coordinator is popped from the registry and, if it has a handler,
\* stop() is called right there in the event loop: loop_stop() joins the
\* network thread, which ends the callback it is running first, and
\* disconnect() closes the connection as in Stop. When it is false nothing
\* is touched. Home Assistant cancels the refresh timer of a coordinator
\* whose entities are gone.
UnloadEntry(outcomes) ==
  /\ setup_pc = "done"
  /\ unload_pc = "none"
  /\ r_pc \in {"idle", "await_quota", "await_hist"}
  /\ m_pc # "apply"
  /\ \E unload_ok \in outcomes :
       IF unload_ok
         THEN /\ unload_pc' = "unloaded"
              /\ registered' = FALSE
              /\ IF mqtt_host # "unset"
                   THEN /\ stops' = stops + 1
                        /\ ran_in' = SetItem(ran_in, "stop", "loop")
                        /\ IF client_made /\ client_running
                             THEN /\ client_running' = FALSE
                                  /\ connected' \in {connected, FALSE}
                             ELSE UNCHANGED <<client_running, connected>>
                   ELSE UNCHANGED <<stops, ran_in, client_running, connected>>
         ELSE /\ unload_pc' = "failed"
              /\ UNCHANGED <<registered, stops, ran_in, client_running, connected>>
  /\ UNCHANGED <<signVars, quotaVars, setup_pc, mqtt_enabled, certVars, client_made,
                 mqtt_host, h_access_key, connect_raised, message_count, forwarded,
                 last_payload, last_rc, subscribed, restVars, bufferVars,
                 pubVars, queue, r_pc, clockVars, mergeVars, threadVars,
                 mqtt_since_rest>>

\* the platform unload succeeds, or fails
Unload == UnloadEntry(BOOLEAN)

Next ==
  \/ SetupFetchCert
  \/ SetupRegister
  \/ SetupMqtt
  \/ SetupForward
  \/ Tick
  \/ QuotaReturns
  \/ HistReturns
  \/ MergeStart
  \/ MergeNext
  \/ MergeRaise
  \/ RefreshPublish
  \/ RunJob
  \/ OnConnect
  \/ OnDisconnect
  \/ OnMessage
  \/ ApplyField
  \/ Enqueue

Spec == Init /\ [][Next]_vars

\* ---------------------------------------------------- EcoFlowHistorySensor
\* sensor.py lines 544-550: the attribute "raw_history_data" of the history
\* sensor
raw_history_data == Get(data, "historical_data", EmptyMap)

\* obj.get(k, default) on a JSON object
DictGet(obj, k, default) ==
  IF \E i \in 1..Len(Val(obj)) : Val(obj)[i][1] = k
    THEN (CHOOSE pair \in Range(Val(obj)) : pair[1] = k)[2]
    ELSE default

\* sensor.py lines 338-341, 363-367 and 392-394: the state of
\* EcoFlowNestedSensor, of EcoFlowPhaseDetailSensor (root key
\* "pcs<phase>Phase") and of EcoFlowHeatPumpSensor (sub key "tempInlet")
nested_state(root_key, sub_key) ==
  DictGet(Get(data, root_key, Dict_(<<>>)), sub_key, Int_(0))

\* ------------------------------------------------ the merge on its own
\* One refresh cycle from the point where cloud_data and historical_data are
\* assigned (line 79), for every content of the three caches and with the
\* network thread at rest.
MapsOver(vals) == UNION {[S -> vals] : S \in SUBSET Keys}

InitMerge ==
  /\ setup_pc = "done"
  /\ mqtt_enabled = TRUE
  /\ registered = TRUE
  /\ client_running = TRUE
  /\ mqtt_cert_data \in Certificates
  /\ cert_fetched = TRUE
  /\ client_made = TRUE
  /\ mqtt_host = Get(mqtt_cert_data, "url", DefaultHost)
  /\ h_access_key = Get(mqtt_cert_data, "accessKey", "None")
  /\ connect_raised = FALSE
  /\ last_rc = 0
  /\ stops = 0
  /\ connected = TRUE
  /\ message_count = MaxMsgs
  /\ forwarded = MaxMsgs
  /\ last_payload = "object"
  /\ cloud_data \in MapsOver(RestVals)
  /\ historical_data \in MapsOver(HistVals)
  /\ mqtt_order \in {<<>>} \cup KeyOrders
  /\ mqtt_data \in [Range(mqtt_order) -> MqttVals]
  /\ last_history_fetch = 0
  /\ data_none = FALSE
  /\ data = EmptyMap
  /\ last_update_success = TRUE
  /\ queue = <<>>
  /\ r_pc = "merge_start"
  /\ quota_ok = TRUE
  /\ hist_ok = TRUE
  /\ now = update_interval
  /\ ticks = 2
  /\ first_tick = 0
  /\ hist_fetches = 1
  /\ combined = EmptyMap
  /\ it_pos = 0
  /\ it_used = 0
  /\ m_pc = "idle"
  /\ flat_data = EmptyMap
  /\ m_todo = <<>>
  /\ mqtt_since_rest = EmptyMap
  /\ SigIdle
  /\ rest_base = EmptyMap
  /\ subscribed = Subscriptions(h_access_key)
  /\ cert_result = mqtt_cert_data
  /\ cert_ok = TRUE
  /\ ran_in = RanInAfterSetup
  /\ unload_pc = "none"
  /\ QuotaIdle

NextMerge ==
  \/ MergeStart
  \/ MergeNext
  \/ RefreshPublish

MergeSpec == InitMerge /\ [][NextMerge]_vars

\* ------------------------------------------- the refresh loop on its own
\* A session without MQTT (mqtt_enabled is False): setup and the refresh
\* cycles, with the clock moving by any of the delays between two cycles.
InitHistory == Init /\ mqtt_enabled = FALSE

NextHistory ==
  \/ SetupFetchCert
  \/ SetupRegister
  \/ SetupMqtt
  \/ SetupForward
  \/ TickLate
  \/ QuotaReturns
  \/ HistReturns
  \/ MergeStart
  \/ RefreshPublish

HistorySpec == InitHistory /\ [][NextHistory]_vars

\* ---------------------------------------------- the network thread alone
\* A session after setup and its refresh cycles, with a connected client:
\* the callbacks of the network thread for every payload, and the jobs they
\* queue.
InitMessage ==
  /\ setup_pc = "done"
  /\ mqtt_enabled = TRUE
  /\ registered = TRUE
  /\ client_running = TRUE
  /\ mqtt_cert_data \in Certificates
  /\ cert_fetched = TRUE
  /\ client_made = TRUE
  /\ mqtt_host = Get(mqtt_cert_data, "url", DefaultHost)
  /\ h_access_key = Get(mqtt_cert_data, "accessKey", "None")
  /\ connect_raised = FALSE
  /\ last_rc = 0
  /\ stops = 0
  /\ connected = TRUE
  /\ message_count = 0
  /\ forwarded = 0
  /\ last_payload = "none"
  /\ cloud_data \in Snapshots
  /\ historical_data \in Histories
  /\ mqtt_data = EmptyMap
  /\ mqtt_order = <<>>
  /\ last_history_fetch = 0
  /\ data_none = FALSE
  /\ data = CombinedBase(cloud_data, historical_data)
  /\ last_update_success = TRUE
  /\ queue = <<>>
  /\ r_pc = "idle"
  /\ quota_ok = TRUE
  /\ hist_ok = TRUE
  /\ now = (MaxTicks - 1) * update_interval
  /\ ticks = MaxTicks
  /\ first_tick = 0
  /\ hist_fetches = 1
  /\ combined = EmptyMap
  /\ it_pos = 0
  /\ it_used = 0
  /\ m_pc = "idle"
  /\ flat_data = EmptyMap
  /\ m_todo = <<>>
  /\ mqtt_since_rest = EmptyMap
  /\ SigIdle
  /\ rest_base = data
  /\ subscribed = Subscriptions(h_access_key)
  /\ cert_result = mqtt_cert_data
  /\ cert_ok = TRUE
  /\ ran_in = RanInAfterSetup
  /\ unload_pc = "none"
  /\ QuotaIdle

NextMessage ==
  \/ OnConnect
  \/ OnDisconnect
  \/ OnMessageAny
  \/ ApplyField
  \/ Enqueue
  \/ RunJob

MessageSpec == InitMessage /\ [][NextMessage]_vars

\* ------------------------------------------------ setup and its failures
\* A session with every outcome of the certificate fetch, of client.connect
\* and of the connect callback, and the refresh cycles at the polling
\* interval; the broker delivers no message.
NextSetup ==
  \/ SetupFetchCertAny
  \/ SetupRegister
  \/ SetupMqttAny
  \/ SetupForward
  \/ Tick
  \/ QuotaReturns
  \/ HistReturns
  \/ MergeStart
  \/ RefreshPublish
  \/ OnConnectAny
  \/ OnDisconnect
  \/ Stop

SetupSpec == Init /\ [][NextSetup]_vars

\* ------------------------------------------------ from setup to unload
\* A session from setup to the unload of the entry, with every outcome of
\* the certificate fetch, of the connect and of the platform unload; the
\* broker delivers no message.
NextLifecycle ==
  \/ SetupFetchCertAny
  \/ SetupRegister
  \/ SetupMqttAny
  \/ SetupMqttRaises
  \/ SetupForward
  \/ Tick
  \/ QuotaReturns
  \/ HistReturns
  \/ MergeStart
  \/ RefreshPublish
  \/ OnConnectAny
  \/ OnDisconnect
  \/ Unload

LifecycleSpec == Init /\ [][NextLifecycle]_vars

\* ------------------------------------------- messages around the unload
\* A session after setup and its refresh cycles, with a connected client:
\* messages arrive, their jobs are queued and run, and the entry is unloaded
\* at some point.
NextUnload ==
  \/ OnConnect
  \/ OnDisconnect
  \/ OnMessage
  \/ ApplyField
  \/ Enqueue
  \/ RunJob
  \/ Unload

UnloadSpec == InitMessage /\ [][NextUnload]_vars

\* --------------------------------------------- the nested sensors' fields
\* One refresh cycle for every answer of a bounded family of nested answers
\* of the "all quotas" endpoint, with no historical data and an empty buffer.
\* the nested objects the sensors of sensor.py read: root key and sub key
NestedFields ==
  << <<"sectorA", "tempCurr">>, <<"pcsAPhase", "vol">>, <<"hpMaster", "tempInlet">> >>

\* what an answer holds under a root key: nothing, an empty object, or the
\* object with the sub key
NestedObjects(sub_key) ==
  {<<>>, <<Dict_(<<>>)>>} \cup {<<Dict_(<< <<sub_key, Int_(v)>> >>)>> : v \in RestVals}

RECURSIVE AnswerPairs(_, _)
AnswerPairs(choice, i) ==
  IF i > Len(NestedFields) THEN <<>>
  ELSE (IF choice[i] = <<>> THEN <<>> ELSE << <<NestedFields[i][1], choice[i][1]>> >>)
         \o AnswerPairs(choice, i + 1)

\* the "data" of the answers of GET /iot-open/sign/device/quota/all
QuotaAnswers ==
  {Dict_(AnswerPairs(choice, 1)) :
     choice \in {c \in [1..Len(NestedFields) ->
                           UNION {NestedObjects(NestedFields[j][2]) : j \in 1..Len(NestedFields)}] :
                   \A j \in 1..Len(NestedFields) : c[j] \in NestedObjects(NestedFields[j][2])}}

\* a flat dict as a mapping from its keys
AsMap(flat) ==
  [k \in {flat[i][1] : i \in 1..Len(flat)} |->
     (CHOOSE pair \in Range(flat) : pair[1] = k)[2]]

InitQuota ==
  /\ setup_pc = "done"
  /\ mqtt_enabled = FALSE
  /\ registered = TRUE
  /\ client_running = FALSE
  /\ mqtt_cert_data = EmptyMap
  /\ cert_fetched = FALSE
  /\ client_made = FALSE
  /\ mqtt_host = "unset"
  /\ h_access_key = "unset"
  /\ connect_raised = FALSE
  /\ connected = FALSE
  /\ message_count = 0
  /\ forwarded = 0
  /\ last_payload = "none"
  /\ last_rc = NoRc
  /\ stops = 0
  /\ cloud_data = EmptyMap
  /\ historical_data = EmptyMap
  /\ mqtt_data = EmptyMap
  /\ mqtt_order = <<>>
  /\ last_history_fetch = 0
  /\ data_none = FALSE
  /\ data = EmptyMap
  /\ last_update_success = TRUE
  /\ queue = <<>>
  /\ r_pc = "await_quota"
  /\ quota_ok = FALSE
  /\ hist_ok = FALSE
  /\ now = (MaxTicks - 1) * update_interval
  /\ ticks = MaxTicks
  /\ first_tick = 0
  /\ hist_fetches = 1
  /\ combined = EmptyMap
  /\ it_pos = 0
  /\ it_used = 0
  /\ m_pc = "idle"
  /\ flat_data = EmptyMap
  /\ m_todo = <<>>
  /\ mqtt_since_rest = EmptyMap
  /\ SigIdle
  /\ rest_base = EmptyMap
  /\ subscribed = {}
  /\ cert_result = EmptyMap
  /\ cert_ok = FALSE
  /\ ran_in = [c \in {"_fetch_all_quotas", "_fetch_historical_data"} |-> "executor"]
  /\ unload_pc = "none"
  /\ q_pc = "call"
  /\ raw_data \in QuotaAnswers
  /\ processed_data = <<>>

\* coordinator.py lines 99-114 and 88-96, then line 61 and the decision of
\* line 69: the request is answered with raw_data as its "data",
\* _process_get_all_quota_response flattens it and the result is assigned to
\* cloud_data
QuotaReturnsAnswer ==
  /\ r_pc = "await_quota"
  /\ q_pc = "call"
  /\ processed_data' = flatten_dict(Val(raw_data), "")
  /\ cloud_data' = AsMap(processed_data')
  /\ quota_ok' = TRUE
  /\ mqtt_since_rest' = EmptyMap
  /\ q_pc' = "done"
  /\ IF need_history
       THEN /\ r_pc' = "await_hist"
            /\ hist_fetches' = hist_fetches + 1
       ELSE /\ r_pc' = "merge_start"
            /\ hist_fetches' = hist_fetches
  /\ UNCHANGED <<signVars, raw_data, unload_pc, ran_in, setupVars, handlerVars,
                 historical_data, last_history_fetch, hist_ok, bufferVars,
                 pubVars, queue, now, ticks, first_tick, mergeVars, threadVars>>

NextQuota ==
  \/ QuotaReturnsAnswer
  \/ MergeStart
  \/ RefreshPublish

QuotaSpec == InitQuota /\ [][NextQuota]_vars

\* ------------------------------------------ _generate_signature on its own
\* One call of _generate_signature for every payload of a bounded family and
\* both methods, with the credentials, the nonce and the clock fixed.
Scalars == {Int_(1), Int_(2)}

SubDicts ==
  { Dict_(<<>>),
    Dict_(<< <<"b", Int_(1)>> >>),
    Dict_(<< <<"c", Int_(2)>> >>),
    Dict_(<< <<"b", Int_(1)>>, <<"c", Int_(2)>> >>),
    Dict_(<< <<"c", Int_(2)>>, <<"b", Int_(1)>> >>) }

ListItems ==
  Scalars \cup { Dict_(<< <<"b", Int_(1)>> >>),
                 Dict_(<< <<"c", Int_(2)>> >>),
                 List_(<<Int_(1), Int_(2)>>) }

Lists == {List_(items) : items \in UNION {[1..n -> ListItems] : n \in 0..MaxItems}}

\* the payload of _fetch_all_quotas (line 102) and of _fetch_historical_data
\* (lines 120-127)
QuotaPayload == Dict_(<< <<"sn", Str_(DeviceSn)>> >>)
HistoryPayload ==
  Dict_(<< <<"sn", Str_(DeviceSn)>>,
           <<"params", Dict_(<< <<"code", Str_("JT303_Dashboard_Overview_Summary_Week")>>,
                                <<"beginTime", Str_("2024-06-17 00:00:00")>>,
                                <<"endTime", Str_("2024-06-23 23:59:59")>> >>)>> >>)

\* a list of eleven items: the shortest with an index of two digits
LongList == List_([i \in 1..11 |-> Int_(i)])

\* payloads with a long list, and with a key that continues the name of a
\* nested key by a character below "." or "["
OrderPayloads ==
  { Dict_(<< <<"a", LongList>> >>),
    Dict_(<< <<"a", Dict_(<< <<"b", Int_(1)>> >>)>>, <<"a-b", Int_(2)>> >>),
    Dict_(<< <<"a", List_(<<Int_(1)>>)>>, <<"aZ", Int_(2)>> >>),
    Dict_(<< <<"a", Dict_(<< <<"b", Int_(1)>> >>)>>, <<"ab", Int_(2)>> >>) }

SignPayloads ==
  {Dict_(<<>>), QuotaPayload, HistoryPayload}
  \cup OrderPayloads
  \cup {Dict_(<< <<k, v>> >>) : k \in {"a", "b"}, v \in Scalars \cup SubDicts \cup Lists}
  \cup {Dict_(<< <<ks[1], v>>, <<ks[2], w>> >>) :
          ks \in {<<"a", "b">>, <<"b", "a">>},
          v \in Scalars \cup SubDicts \cup Lists,
          w \in Scalars \cup SubDicts}

\* payloads whose keys hold the separator or an index themselves, and
\* sequences nested directly inside sequences
PathKeys == {"a", "b", "a.b", "a[0]"}

PathValues ==
  Scalars \cup { Dict_(<< <<"b", Int_(1)>> >>),
                 Dict_(<< <<"b", Int_(2)>> >>),
                 List_(<<Int_(1)>>),
                 List_(<<Int_(2)>>),
                 List_(<< Dict_(<< <<"b", Int_(1)>> >>) >>),
                 List_(<< List_(<<Int_(1), Int_(2)>>) >>),
                 List_(<< List_(<< Dict_(<< <<"b", Int_(1)>> >>) >>) >>) }

FlattenPayloads ==
  {Dict_(<< <<k, v>> >>) : k \in PathKeys, v \in PathValues}
  \cup {Dict_(<< <<ks[1], v>>, <<ks[2], w>> >>) :
          ks \in {kk \in PathKeys \X PathKeys : kk[1] # kk[2]},
          v \in PathValues, w \in PathValues}

\* the state before one call of _generate_signature on a payload of the set
InitSignOver(payloads) ==
  /\ setup_pc = "start"
  /\ mqtt_enabled = FALSE
  /\ registered = FALSE
  /\ client_running = FALSE
  /\ mqtt_cert_data = EmptyMap
  /\ cert_fetched = FALSE
  /\ client_made = FALSE
  /\ mqtt_host = "unset"
  /\ h_access_key = "unset"
  /\ connect_raised = FALSE
  /\ connected = FALSE
  /\ message_count = 0
  /\ forwarded = 0
  /\ last_payload = "none"
  /\ last_rc = NoRc
  /\ stops = 0
  /\ cloud_data = EmptyMap
  /\ historical_data = EmptyMap
  /\ mqtt_data = EmptyMap
  /\ mqtt_order = <<>>
  /\ last_history_fetch = NoFetch
  /\ data_none = TRUE
  /\ data = EmptyMap
  /\ last_update_success = TRUE
  /\ queue = <<>>
  /\ r_pc = "idle"
  /\ quota_ok = FALSE
  /\ hist_ok = FALSE
  /\ now = 0
  /\ ticks = 0
  /\ first_tick = 0
  /\ hist_fetches = 0
  /\ combined = EmptyMap
  /\ it_pos = 0
  /\ it_used = 0
  /\ m_pc = "idle"
  /\ flat_data = EmptyMap
  /\ m_todo = <<>>
  /\ mqtt_since_rest = EmptyMap
  /\ sig_pc = "call"
  /\ sig_payload \in payloads
  /\ sig_method \in {"GET", "POST"}
  /\ sig_out = NoSignature
  /\ rest_base = EmptyMap
  /\ subscribed = {}
  /\ cert_result = EmptyMap
  /\ cert_ok = FALSE
  /\ ran_in = EmptyMap
  /\ unload_pc = "none"
  /\ QuotaIdle

InitSign == InitSignOver(SignPayloads)

InitFlatten == InitSignOver(FlattenPayloads)

\* lines 190-219
Sign ==
  /\ sig_pc = "call"
  /\ sig_out' = generate_signature(sig_payload, sig_method, AccessKey,
                                   SecretKey, Nonce, Timestamp)
  /\ sig_pc' = "done"
  /\ UNCHANGED <<setupVars, handlerVars, restVars, bufferVars, pubVars, queue,
                 r_pc, clockVars, mergeVars, threadVars, mqtt_since_rest,
                 sig_payload, sig_method, quotaVars, unload_pc, ran_in>>

NextSign == Sign

SignSpec == InitSign /\ [][NextSign]_vars

FlattenSpec == InitFlatten /\ [][NextSign]_vars

\* ------------------------------------------------------------------ claims
\* nothing is pending: setup has returned, no refresh cycle is running, the
\* network thread is between two callbacks and the job queue is drained
Quiescent ==
  /\ setup_pc = "done"
  /\ r_pc = "idle"
  /\ m_pc = "idle"
  /\ queue = <<>>

IsMqttVal(v) == v \notin RestVals \cup HistVals

\* the value of key k under "buffer, else historical, else cloud"
Priority(cloud, hist, buf) ==
  [k \in (DOMAIN cloud) \cup (DOMAIN hist) \cup (DOMAIN buf) |->
     IF k \in DOMAIN buf THEN buf[k]
     ELSE IF k \in DOMAIN hist THEN hist[k]
     ELSE cloud[k]]

C2_RestIsNewBase ==
  [][(r_pc = "merge" /\ r_pc' = "idle" /\ last_update_success' /\ quota_ok) =>
       \A k \in (DOMAIN cloud_data) \ ((DOMAIN historical_data) \cup (DOMAIN mqtt_since_rest)) :
         k \in DOMAIN data' /\ data'[k] = cloud_data[k]]_vars

\* C3 (as claimed): once everything is drained, a key of the last REST
\* snapshot for which an MQTT message arrived after that snapshot shows the
\* MQTT value.
C3_MqttWins ==
  Quiescent =>
    \A k \in (DOMAIN cloud_data) \cap (DOMAIN mqtt_since_rest) :
      k \in DOMAIN data /\ data[k] = mqtt_since_rest[k]

\* the canonical state shows an MQTT value for a key the REST snapshot reports
ShowsMqtt(k) ==
  /\ k \in (DOMAIN cloud_data) \cap (DOMAIN data)
  /\ IsMqttVal(data[k])

\* the canonical state shows the REST value for a key although an MQTT
\* message carried that key after the snapshot
ShowsRest(k) ==
  /\ k \in (DOMAIN cloud_data) \cap (DOMAIN mqtt_since_rest) \cap (DOMAIN data)
  /\ data[k] = cloud_data[k]

\* C4 (as claimed): one precedence policy for all collisions: a drained state
\* never shows the MQTT value for one colliding key and the REST value for
\* another.
C4_SinglePolicy ==
  Quiescent => ~(\E k1, k2 \in Keys : ShowsMqtt(k1) /\ ShowsRest(k2))

\* C5 (as claimed): the fields of one MQTT message are visible all together:
\* when the canonical state shows a message's value for one key and the
\* buffer holds the same message's value for another key, the canonical state
\* shows that one too.
C5_AllOrNothing ==
  \A k1, k2 \in Keys :
    (/\ ~data_none
     /\ k1 \in DOMAIN data
     /\ IsMqttVal(data[k1])
     /\ k2 \in DOMAIN mqtt_data
     /\ mqtt_data[k2] = data[k1])
    => (k2 \in DOMAIN data /\ data[k2] = data[k1])

\* C6 (as claimed): a queued publish job never takes the canonical state back
\* from the value of the latest REST snapshot to another REST value.
C6_NoStaleJob ==
  [][(queue # <<>> /\ queue' = Tail(queue)) =>
       \A k \in (DOMAIN data) \cap (DOMAIN cloud_data) :
         (data[k] = cloud_data[k] /\ k \in DOMAIN data')
           => (data'[k] = data[k] \/ IsMqttVal(data'[k]))]_vars

\* a step of the network thread
ThreadStep ==
  <<connected, message_count, m_pc, m_todo>>' # <<connected, message_count, m_pc, m_todo>>

\* C7: the network thread never writes the canonical state: every step of
\* on_message / update_mqtt_data leaves .data alone and its last step only
\* appends a job to the loop's queue; .data changes only in a step of the
\* event loop (the end of a refresh cycle, or a queued job being run).
C7_SingleWriter ==
  [][/\ ThreadStep => (data' = data /\ data_none' = data_none)
     /\ (m_pc = "apply" /\ m_pc' = "idle") => queue' = Append(queue, PatchJob)
     /\ (data' # data \/ data_none' # data_none) =>
          \/ r_pc = "merge" /\ r_pc' = "idle"
          \/ LoopFree /\ queue # <<>> /\ queue' = Tail(queue)]_vars

\* C7 witness: update_mqtt_data has returned, its job is queued and differs
\* from the canonical state, which is still the one published before
C7_Witness ==
  /\ m_pc = "idle"
  /\ message_count > 0
  /\ queue # <<>>
  /\ ~data_none
  /\ Head(queue) # data

\* C8 (as claimed): a refresh cycle whose snapshot fetch failed leaves a
\* canonical state that holds REST fields exactly as it was.
C8_FailedFetchKeepsState ==
  [][(/\ r_pc = "merge"
      /\ r_pc' = "idle"
      /\ ~quota_ok
      /\ \E k \in DOMAIN data : data[k] \in RestVals)
     => data' = data]_vars

\* C9 (as claimed): when the first snapshot fetch has failed, setup does not
\* go on: nothing is registered and no MQTT client is started.
C9_FirstFetchFatal ==
  (ticks = 1 /\ r_pc = "idle" /\ ~quota_ok) =>
    /\ setup_pc = "not_ready"
    /\ ~registered
    /\ ~client_running

FetchedHistoryNow == last_history_fetch = now

\* C11 (as claimed): a refresh cycle whose historical fetch failed still
\* publishes, and every historical field the canonical state held before is
\* in the published state with the same value.
C11_FailedHistoryKeepsFields ==
  [][(/\ r_pc = "merge"
      /\ r_pc' = "idle"
      /\ quota_ok
      /\ FetchedHistoryNow
      /\ ~hist_ok) =>
       /\ last_update_success'
       /\ ~data_none'
       /\ \A k \in DOMAIN data :
            data[k] \in HistVals => (k \in DOMAIN data' /\ data'[k] = data[k])]_vars

\* a call of on_message: the payload, the counter or the thread's position
\* changes
OnMessageStep ==
  /\ m_pc = "idle"
  /\ <<last_payload, message_count, m_pc>>' # <<last_payload, message_count, m_pc>>
  /\ connected' = connected

\* C12 (as claimed): for every payload other than a JSON object with fields,
\* on_message returns without raising and leaves the canonical state, the
\* buffer, the connected flag and message_count as they were, and queues no
\* job.
C12_DroppedPayloadIsInert ==
  [][(OnMessageStep /\ last_payload' # "object") =>
       /\ m_pc' = "idle"
       /\ UNCHANGED <<data_none, data, mqtt_data, mqtt_order, connected,
                      message_count, queue>>]_vars

\* the certificate fetch ran and stored nothing
CertFetchFailed == cert_fetched /\ mqtt_cert_data = EmptyMap

\* C13 (as claimed): when the certificate fetch has failed, MQTT is off for
\* the session: no handler is constructed from the empty certificate and no
\* client is created or started.
C13_NoCertNoMqtt ==
  CertFetchFailed =>
    /\ mqtt_host = "unset"
    /\ h_access_key = "unset"
    /\ ~client_made
    /\ ~client_running

\* the connection attempt of setup has failed and no connect callback has
\* reported success since
ConnectFailed == client_made /\ (connect_raised \/ last_rc # NoRc) /\ last_rc # 0

HandlerState ==
  <<client_made, client_running, connected, message_count, mqtt_host,
    h_access_key>>

C15_WitnessNeverConnected ==
  /\ stops >= 1
  /\ connect_raised
  /\ last_rc = NoRc
  /\ ~client_running

\* C16 (as claimed): after a refresh cycle with a non-empty historical summary
\* the canonical state holds the summary under the key "historical_data", so
\* the history sensor's raw_history_data is the summary, and the summary's
\* own keys do not replace fields of the current snapshot.
C16_HistoryUnderOwnKey ==
  (r_pc = "idle" /\ ~data_none /\ historical_data # EmptyMap) =>
    /\ "historical_data" \in DOMAIN data
    /\ raw_history_data = historical_data
    /\ \A k \in (DOMAIN cloud_data) \ (DOMAIN mqtt_data) :
         k \in DOMAIN data /\ data[k] = cloud_data[k]

\* the leaves of a payload with their addresses: key.subkey into a mapping,
\* key[index] for an element of a sequence, and again .subkey into an element
\* that is a mapping
RECURSIVE Leaves(_, _)
Leaves(value, path) ==
  IF Tag(value) = "dict"
    THEN UNION {Leaves(Val(value)[i][2],
                       IF path = "" THEN Val(value)[i][1]
                                    ELSE path \o "." \o Val(value)[i][1]) :
                i \in 1..Len(Val(value))}
  ELSE IF Tag(value) = "list"
    THEN UNION {LET item == Val(value)[i]
                    at == path \o "[" \o ToString(i - 1) \o "]"
                IN IF Tag(item) = "dict" THEN Leaves(item, at) ELSE {<<at, item>>} :
                i \in 1..Len(Val(value))}
  ELSE {<<path, value>>}

\* the flattened pairs of the call in sorted order, and their text
SignedPairs == sorted_items(sig_out.flat)
PairsText == join_pairs(SignedPairs)

StartsWith(text, prefix) ==
  Len(text) >= Len(prefix) /\ SubSeq(text, 1, Len(prefix)) = prefix

\* C17: the flattened pairs of a payload are its leaves, each under its
\* address (key.subkey, key[index]), in ascending order of the addresses, and
\* written key=value joined by "&": {"b":1,"a":2} gives "a=2&b=1",
\* {"a":{"b":1}} gives "a.b=1" and {"a":[{"b":1},{"c":2}]} gives
\* "a[0].b=1&a[1].c=2".
C17_FlattenSorted ==
  sig_pc = "done" =>
    /\ Range(SignedPairs) = Leaves(sig_payload, "")
    /\ Len(SignedPairs) = Cardinality(Leaves(sig_payload, ""))
    /\ \A i, j \in 1..Len(SignedPairs) :
         i < j => StrLess(SignedPairs[i][1], SignedPairs[j][1])
    /\ StartsWith(sig_out.sign_base, PairsText)
    /\ sig_payload = Dict_(<< <<"b", Int_(1)>>, <<"a", Int_(2)>> >>)
         => PairsText = "a=2&b=1"
    /\ sig_payload = Dict_(<< <<"a", Dict_(<< <<"b", Int_(1)>> >>)>> >>)
         => PairsText = "a.b=1"
    /\ sig_payload = Dict_(<< <<"a", List_(<< Dict_(<< <<"b", Int_(1)>> >>),
                                              Dict_(<< <<"c", Int_(2)>> >>) >>)>> >>)
         => PairsText = "a[0].b=1&a[1].c=2"

\* C17 witness: the payload {"a":[{"b":1},{"c":2}]} has been flattened
C17_Witness ==
  /\ sig_pc = "done"
  /\ sig_payload = Dict_(<< <<"a", List_(<< Dict_(<< <<"b", Int_(1)>> >>),
                                            Dict_(<< <<"c", Int_(2)>> >>) >>)>> >>)
  /\ sig_out.flat = << <<"a[0].b", Int_(1)>>, <<"a[1].c", Int_(2)>> >>

\* what follows the pairs in the signing base
SignTail == "accessKey=" \o AccessKey \o "&nonce=" \o Nonce \o "&timestamp=" \o Timestamp

\* C18: the signing base is the flattened pairs joined by "&", then "&", then
\* accessKey=..&nonce=..&timestamp=..; for a payload without pairs it is that
\* tail alone, with no "&" in front; it does not depend on the method. The
\* headers are accessKey, nonce, timestamp and sign, and Content-Type exactly
\* for POST.
C18_SignBase ==
  sig_pc = "done" =>
    /\ sig_out.sign_base =
         (IF Leaves(sig_payload, "") = {} THEN "" ELSE PairsText \o "&") \o SignTail
    /\ sig_payload = Dict_(<<>>) =>
         sig_out.sign_base = "accessKey=AK&nonce=123456&timestamp=1718000000000"
    /\ DOMAIN sig_out.headers =
         {"accessKey", "nonce", "timestamp", "sign"}
           \cup (IF sig_method = "POST" THEN {"Content-Type"} ELSE {})
    /\ sig_out.headers["accessKey"] = AccessKey
    /\ sig_out.headers["nonce"] = Nonce
    /\ sig_out.headers["timestamp"] = Timestamp
    /\ sig_out.headers["sign"] = hmac_sha256_hex(SecretKey, sig_out.sign_base)

\* C18 witness: the POST of the historical summary has been signed
C18_Witness ==
  /\ sig_pc = "done"
  /\ sig_method = "POST"
  /\ sig_payload = HistoryPayload
  /\ "Content-Type" \in DOMAIN sig_out.headers
  /\ sig_out.sign_base =
       "params.beginTime=2024-06-17 00:00:00&params.code=JT303_Dashboard_Overview_Summary_Week"
         \o "&params.endTime=2024-06-23 23:59:59&sn=SN1"
         \o "&accessKey=AK&nonce=123456&timestamp=1718000000000"

\* the order of the steps of async_setup_entry
SetupOrder ==
  { <<"start", "first_refresh">>, <<"first_refresh", "refreshed">>,
    <<"first_refresh", "not_ready">>, <<"refreshed", "registered">>,
    <<"registered", "mqtt_started">>, <<"mqtt_started", "done">> }

\* C19: async_setup_entry goes through its steps in one order. The
\* certificate is fetched first, and exactly when mqtt_enabled is set; the
\* first refresh comes after that step; the coordinator is registered only
\* when that refresh has published a state; the MQTT client exists only
\* after the registration; the platform is forwarded last. So whenever
\* update_mqtt_data runs, or has queued a job, the canonical state is set.
C19_SetupOrder ==
  /\ [](/\ cert_fetched => mqtt_enabled
        /\ setup_pc # "start" => cert_fetched = mqtt_enabled
        /\ ticks >= 1 => setup_pc # "start"
        /\ registered => (ticks >= 1 /\ ~data_none)
        /\ (client_made \/ client_running) => (registered /\ mqtt_enabled)
        /\ setup_pc = "done" => (registered /\ client_made = mqtt_enabled)
        /\ (m_pc = "apply" \/ message_count > 0 \/ queue # <<>>) => ~data_none)
  /\ [][setup_pc' # setup_pc => <<setup_pc, setup_pc'>> \in SetupOrder]_vars

\* C19 witness: setup is through with MQTT enabled, and update_mqtt_data is
\* running for a message
C19_Witness ==
  /\ setup_pc = "done"
  /\ mqtt_enabled
  /\ cert_fetched
  /\ registered
  /\ client_made
  /\ m_pc = "apply"
  /\ ~data_none

\* C20 (as claimed): the historical timestamp is set to the cycle's "now" by
\* every cycle that attempts a historical fetch, whatever the fetch gives, and
\* is left alone by every other step, in particular by a cycle whose
\* snapshot fetch has failed.
C20_TimestampPolicy ==
  [][/\ (r_pc = "await_hist" /\ r_pc' # r_pc /\ quota_ok) => last_history_fetch' = now
     /\ r_pc # "await_hist" => last_history_fetch' = last_history_fetch
     /\ (r_pc = "await_hist" /\ ~quota_ok) => last_history_fetch' = last_history_fetch]_vars

\* the job update_mqtt_data has just queued
QueuedJob == queue'[Len(queue')]

\* update_mqtt_data returns, its job queued
PatchQueued == m_pc = "apply" /\ m_pc' = "idle" /\ Len(queue') = Len(queue) + 1

\* the state update_mqtt_data hands to the patch path is the result of the
\* last REST merge overlaid with the whole buffer
PatchFromLastMerge ==
  PatchQueued => QueuedJob = Overlay(rest_base, mqtt_data)

\* a field of a message whose key the REST snapshot does not hold is
\* buffered with the message's value, the queued job holds the whole buffer,
\* the scheduler publishes the job as it is, and a refresh that does not
\* report the key publishes the buffered value again
MqttOnlyFieldStays ==
  /\ (m_pc = "apply" /\ m_todo # <<>> /\ m_todo' = Tail(m_todo)
        /\ Head(m_todo) \notin DOMAIN cloud_data) =>
       (/\ Head(m_todo) \in DOMAIN mqtt_data'
        /\ mqtt_data'[Head(m_todo)] = flat_data[Head(m_todo)])
  /\ PatchQueued =>
       \A k \in DOMAIN mqtt_data :
         k \in DOMAIN QueuedJob /\ QueuedJob[k] = mqtt_data[k]
  /\ (queue # <<>> /\ queue' = Tail(queue)) => data' = Head(queue)
  /\ (r_pc = "merge" /\ r_pc' = "idle" /\ last_update_success') =>
       \A k \in (DOMAIN mqtt_data) \ (DOMAIN cloud_data) :
         k \in DOMAIN data' /\ IsMqttVal(data'[k])
  /\ \A k \in Keys :
       (k \in (DOMAIN mqtt_data) \cap (DOMAIN data) /\ IsMqttVal(data[k])
          /\ queue = <<>>)
         => (k \in DOMAIN data' /\ IsMqttVal(data'[k]))

\* C21 (as claimed): after every accepted MQTT message the patch path
\* publishes the last REST-merge base overlaid with the whole MQTT buffer,
\* and a field the REST snapshot does not report shows the message's value
\* once the queued job has run and keeps an MQTT value across later refreshes.
C21_PatchPath == [][PatchFromLastMerge /\ MqttOnlyFieldStays]_vars

\* the topic of a channel under the account of the fetched certificate
CertificateTopic(channel) ==
  "/open/" \o mqtt_cert_data["certificateAccount"] \o "/" \o DeviceSn \o "/" \o channel

\* on_connect has been called with rc = 0
ConnectSucceeds == last_rc' = 0 /\ ~connected /\ connected'

\* C22 (as claimed): every successful connect callback, a reconnect too,
\* subscribes to each configured topic, and each topic is
\* /open/<certificateAccount>/<deviceSerial>/<channel> with the account of
\* the fetched certificate and the configured device serial.
C22_TopicsUseCertificateAccount ==
  [][(ConnectSucceeds /\ "certificateAccount" \in DOMAIN mqtt_cert_data) =>
       subscribed' = {CertificateTopic(topics_to_subscribe[i]) :
                        i \in 1..Len(topics_to_subscribe)}]_vars

\* the call of fetch_mqtt_certification made by setup
FetchCertStep == setup_pc = "start" /\ setup_pc' # "start" /\ mqtt_enabled

\* C23: fetch_mqtt_certification stores and returns the certificate fields
\* exactly when the envelope has code "0"; otherwise it returns an empty
\* mapping and leaves mqtt_cert_data as it was; and no other step of the
\* session changes mqtt_cert_data.
C23_CertificateStorage ==
  [][/\ FetchCertStep =>
          /\ cert_fetched'
          /\ cert_ok' => (/\ cert_result' \in Certificates
                          /\ mqtt_cert_data' = cert_result')
          /\ ~cert_ok' => (/\ cert_result' = EmptyMap
                           /\ mqtt_cert_data' = mqtt_cert_data)
     /\ ~FetchCertStep => UNCHANGED <<mqtt_cert_data, cert_result, cert_ok>>]_vars

\* C23 witness: the fetch failed, nothing was stored, and the session went
\* on through setup, refresh cycles, a connect callback and stop() with the
\* stored certificate still empty
C23_Witness ==
  /\ cert_fetched
  /\ ~cert_ok
  /\ cert_result = EmptyMap
  /\ mqtt_cert_data = EmptyMap
  /\ setup_pc = "done"
  /\ ticks >= 2
  /\ last_rc # NoRc
  /\ stops >= 1

\* the fetch succeeded and the stored certificate is the returned one after
\* setup, refresh cycles and a connect callback
C23_WitnessStored ==
  /\ cert_fetched
  /\ cert_ok
  /\ cert_result \in Certificates
  /\ mqtt_cert_data = cert_result
  /\ setup_pc = "done"
  /\ ticks >= 2
  /\ connected

\* the leaves of a payload in the order of the keys sorted at each nesting
\* level, the elements of a sequence in index order
RECURSIVE LevelOrder(_, _)
RECURSIVE LevelOrderPairs(_, _)
RECURSIVE LevelOrderItems(_, _, _)
LevelOrder(value, path) ==
  IF Tag(value) = "dict" THEN LevelOrderPairs(sorted_set(Range(Val(value))), path)
  ELSE IF Tag(value) = "list" THEN LevelOrderItems(Val(value), path, 0)
  ELSE << <<path, value>> >>

LevelOrderPairs(pairs, path) ==
  IF pairs = <<>> THEN <<>>
  ELSE LevelOrder(Head(pairs)[2],
                  IF path = "" THEN Head(pairs)[1] ELSE path \o "." \o Head(pairs)[1])
         \o LevelOrderPairs(Tail(pairs), path)

LevelOrderItems(items, path, idx) ==
  IF items = <<>> THEN <<>>
  ELSE LET item == Head(items)
           at == path \o "[" \o ToString(idx) \o "]"
       IN (IF Tag(item) = "dict" THEN LevelOrder(item, at) ELSE << <<at, item>> >>)
            \o LevelOrderItems(Tail(items), path, idx + 1)

\* C24 (as claimed): the pairs of the signing base, sorted as flattened path
\* strings, are in the order of the keys sorted level by level with the
\* elements of a sequence in index order, also for a sequence of ten or more
\* elements and for keys with characters below "." or "[".
C24_LevelOrder ==
  sig_pc = "done" => SignedPairs = LevelOrder(sig_payload, "")

\* C25 (as claimed): every blocking call made so far, the snapshot fetch,
\* the historical fetch, the certificate fetch, the MQTT connect and the MQTT
\* stop of the unload, ran in the executor and none in the event loop.
C25_BlockingOffScheduler ==
  \A call \in DOMAIN ran_in : ran_in[call] = "executor"

\* the four blocking calls of setup and refresh have all been made, each in
\* the executor
SetupCallsInExecutor ==
  /\ DOMAIN ran_in = DOMAIN RanInAfterSetup
  /\ \A call \in DOMAIN ran_in : ran_in[call] = "executor"

\* the answer holds the object root_key -> {sub_key: v}
Reports(root_key, sub_key) ==
  /\ \E i \in 1..Len(Val(raw_data)) : Val(raw_data)[i][1] = root_key
  /\ \E i \in 1..Len(Val(DictGet(raw_data, root_key, Dict_(<<>>)))) :
       Val(DictGet(raw_data, root_key, Dict_(<<>>)))[i][1] = sub_key

\* C26 (as claimed): after a refresh whose snapshot reports the nested
\* object root_key -> {sub_key: v}, the sensor bound to (root_key, sub_key)
\* shows v, and it shows the default 0 only when the snapshot has no such
\* field.
C26_NestedSensorState ==
  (q_pc = "done" /\ r_pc = "idle") =>
    \A i \in 1..Len(NestedFields) :
      LET root_key == NestedFields[i][1]
          sub_key == NestedFields[i][2]
      IN IF Reports(root_key, sub_key)
           THEN nested_state(root_key, sub_key)
                  = DictGet(DictGet(raw_data, root_key, Dict_(<<>>)), sub_key, Int_(0))
           ELSE nested_state(root_key, sub_key) = Int_(0)

\* async_unload_entry returns
UnloadStep == unload_pc = "none" /\ unload_pc' # "none"

\* C27 (as claimed): async_unload_entry removes the coordinator from the
\* registry and stops its handler exactly when the platform unload
\* succeeded, leaves the registry entry and the running handler alone when
\* it failed, and after a successful unload nothing is published to the
\* canonical state any more, a job queued before the stop included.
C27_UnloadStopsPublishing ==
  [][/\ (UnloadStep /\ unload_pc' = "unloaded") =>
          /\ ~registered'
          /\ ~client_running'
          /\ stops' = stops + 1
     /\ (UnloadStep /\ unload_pc' = "failed") =>
          UNCHANGED <<registered, clientVars, handlerVars>>
     /\ (registered /\ ~registered') => (UnloadStep /\ unload_pc' = "unloaded")
     /\ stops' # stops => (UnloadStep /\ unload_pc' = "unloaded")
     /\ unload_pc = "unloaded" => UNCHANGED <<data_none, data>>]_vars

\* the entry has been unloaded with a job still queued
UnloadedWithJob == unload_pc = "unloaded" /\ queue # <<>>

\* the platform unload failed and the handler is still running
UnloadFailed == unload_pc = "failed" /\ registered /\ client_running

\* C28 (as claimed): the MQTT buffer never holds a key that the current
\* cloud_data holds.
C28_BufferDisjointFromCloud ==
  (DOMAIN mqtt_data) \cap (DOMAIN cloud_data) = {}

\* C29 (as claimed): the connected flag is true only while the last event of
\* the connection was a connect callback with rc = 0: it is false before any
\* callback, stays false on a connect callback with another code, is false
\* after every disconnect callback and false once stop() has returned.
C29_ConnectedFlag ==
  [][/\ connected' => last_rc' = 0
     /\ (last_rc' # last_rc /\ last_rc' # 0) => ~connected'
     /\ (connected /\ ~connected' /\ stops' = stops) => last_rc' = last_rc
     /\ stops' = stops + 1 => ~connected']_vars

\* stop() has returned on a handler that was connected
StoppedWhileConnected == stops >= 1 /\ last_rc = 0 /\ ~client_running

\* C30 (as claimed): when async_setup_entry has ended with
\* ConfigEntryNotReady, no coordinator is registered for the entry, and no
\* MQTT client exists or runs its network loop.
C30_NotReadyLeavesNothing ==
  setup_pc = "not_ready" =>
    /\ ~registered
    /\ ~client_made
    /\ ~client_running

\* the scalar leaves of a payload, each with the steps that lead to it: a
\* key of a mapping or an index of a sequence, at every depth
RECURSIVE ScalarLeaves(_, _)
ScalarLeaves(value, steps) ==
  IF Tag(value) = "dict"
    THEN UNION {ScalarLeaves(Val(value)[i][2],
                             Append(steps, <<"key", Val(value)[i][1]>>)) :
                i \in 1..Len(Val(value))}
  ELSE IF Tag(value) = "list"
    THEN UNION {ScalarLeaves(Val(value)[i],
                             Append(steps, <<"idx", ToString(i - 1)>>)) :
                i \in 1..Len(Val(value))}
  ELSE {<<steps, value>>}

\* the path key of a leaf: key.subkey into a mapping, key[index] into a
\* sequence
RECURSIVE PathKey(_)
PathKey(steps) ==
  IF steps = <<>> THEN ""
  ELSE LET before == PathKey(SubSeq(steps, 1, Len(steps) - 1))
           step == steps[Len(steps)]
       IN IF step[1] = "idx" THEN before \o "[" \o step[2] \o "]"
          ELSE IF before = "" THEN step[2]
          ELSE before \o "." \o step[2]

IsScalar(value) == Tag(value) \in {"int", "str"}

\* every scalar leaf is in the output once, under its path key, and the
\* output holds nothing else
LeavesKept ==
  /\ \A leaf \in ScalarLeaves(sig_payload, <<>>) :
       Cardinality({i \in 1..Len(sig_out.flat) :
                      sig_out.flat[i] = <<PathKey(leaf[1]), leaf[2]>>}) = 1
  /\ \A i \in 1..Len(sig_out.flat) :
       \E leaf \in ScalarLeaves(sig_payload, <<>>) :
         sig_out.flat[i] = <<PathKey(leaf[1]), leaf[2]>>

\* two leaves at different places have different path keys
LeavesApart ==
  \A l1, l2 \in ScalarLeaves(sig_payload, <<>>) :
    l1[1] # l2[1] => PathKey(l1[1]) # PathKey(l2[1])

\* every value of the output is a scalar
OutputScalar == \A i \in 1..Len(sig_out.flat) : IsScalar(sig_out.flat[i][2])

\* C31 (as claimed): _flatten_dict loses no leaf and merges none: each scalar
\* leaf of the payload is in the output exactly once under its own path key,
\* two different leaf paths never give the same flattened key, also when a
\* key holds "." or "[0]" itself, and the elements of a sequence nested
\* directly in a sequence are flattened to scalars.
C31_FlattenLossless ==
  sig_pc = "done" => LeavesKept /\ LeavesApart /\ OutputScalar

\* a payload without a sequence in a sequence and with keys free of "." and
\* "[" has been flattened without loss
PlainFlattened ==
  /\ sig_pc = "done"
  /\ sig_payload = Dict_(<< <<"a", List_(<< Dict_(<< <<"b", Int_(1)>> >>) >>)>>,
                            <<"b", Dict_(<< <<"b", Int_(2)>> >>)>> >>)
  /\ LeavesKept /\ LeavesApart /\ OutputScalar

\* C32: message_count is the number of messages on_message has passed to
\* update_mqtt_data: it goes up by exactly one in the step that makes the
\* call, and no other step changes it, neither a dropped message nor a
\* connect or disconnect callback.
C32_MessageCount ==
  [][/\ message_count = forwarded
     /\ message_count' = forwarded'
     /\ forwarded' # forwarded => message_count' = message_count + 1
     /\ forwarded' = forwarded => message_count' = message_count]_vars

\* C32 witness: one message has been passed on and counted, and the message
\* after it was dropped as an empty object
C32_Witness ==
  /\ message_count = 1
  /\ forwarded = 1
  /\ last_payload = "empty_object"
  /\ m_pc = "idle"

\* a message whose params is a list has been counted and passed on, and
\* update_mqtt_data has raised
CountedThenRaised ==
  /\ message_count = 1
  /\ forwarded = 1
  /\ last_payload = "params_list"
  /\ m_pc = "raised"

====
